---- MODULE Spec2Model ----
(***************************************************************************)
(* Model of the MAP fingerprint pipeline (skfp/fingerprints/map.py) and of *)
(* the batch orchestrator FingerprintTransformer.transform (base.py).      *)
(*                                                                         *)
(* Python strings are sequences of code points, bytes are sequences of     *)
(* 0..255.  Optional[str] values are records [tag, s] with tag "str" or    *)
(* "None".  The chemistry toolkit (RDKit) is external: a molecule is the   *)
(* list of its atoms' kinds plus a shape, and the toolkit's answers are    *)
(* functions of that description.                                          *)
(***************************************************************************)
EXTENDS Integers, Sequences, FiniteSets, TLC

VARIABLES
    \* ---- FingerprintTransformer.transform (base.py)
    X,          \* the caller's sequence object, mutated in place by _validate_input
    X0,         \* the elements the caller passed in (history)
    n_jobs,     \* self.n_jobs after effective_n_jobs
    batch_size, \* [set, v]: the explicit batch size, or unset (None)
    cfg,        \* fp_size, radius, variant of the transformer
    pc,         \* position inside transform
    args,       \* the sub-batches handed to Parallel, in submission order
    results,    \* per sub-batch: pending, matrix or error
    reordered,  \* some sub-batch finished before one submitted earlier (history)
    computed,   \* number of per-molecule fingerprints computed so far
    ret,        \* value returned by transform
    err,        \* exception raised out of transform ("" when none)
    \* ---- MAPFingerprint._calculate_single_mol_fingerprint (map.py)
    fmol,       \* the molecule being fingerprinted
    fcfg,       \* fp_size, radius, variant
    fpc,        \* position inside _calculate_single_mol_fingerprint
    atoms_envs, \* result of _get_atom_envs
    emitted,    \* (idx_1, idx_2, radius, shingle) per executed loop body of _get_atom_pair_shingles
    shingles,   \* result of _get_atom_pair_shingles (bytes)
    fp,         \* the fingerprint vector
    ferr        \* exception raised by the pipeline ("" when none)

tvars == <<X, X0, n_jobs, batch_size, cfg, pc, args, results, reordered, computed, ret, err>>
fvars == <<fmol, fcfg, fpc, atoms_envs, emitted, shingles, fp, ferr>>
vars == <<tvars, fvars>>

\* ---------------------------------------------------------------- bounds
MaxLen == 5
MaxJobs == 3
MaxAtoms == 3
MaxRadius == 2

\* ---------------------------------------------------------------- helpers
Max(a, b) == IF a >= b THEN a ELSE b
Min(a, b) == IF a <= b THEN a ELSE b

RECURSIVE SumSeq(_)
SumSeq(s) == IF s = <<>> THEN 0 ELSE Head(s) + SumSeq(Tail(s))

RECURSIVE Flatten(_)
Flatten(ss) == IF ss = <<>> THEN <<>> ELSE Head(ss) \o Flatten(Tail(ss))

Range(s) == {s[k] : k \in DOMAIN s}

RECURSIVE Repeat(_, _)
Repeat(c, n) == IF n <= 0 THEN <<>> ELSE <<c>> \o Repeat(c, n - 1)

\* Optional[str]
NoneVal == [tag |-> "None", s |-> <<>>]
Str(s) == [tag |-> "str", s |-> s]

\* str(n) for a non-negative int: decimal digits, '0' is code point 48
RECURSIVE IntToStr(_)
IntToStr(n) == IF n < 10 THEN <<48 + n>> ELSE IntToStr(n \div 10) \o <<48 + (n % 10)>>

\* Python's str comparison a < b: code point by code point, a proper prefix is smaller
RECURSIVE StrLess(_, _)
StrLess(a, b) ==
    IF b = <<>> THEN FALSE
    ELSE IF a = <<>> THEN TRUE
    ELSE IF Head(a) # Head(b) THEN Head(a) < Head(b)
    ELSE StrLess(Tail(a), Tail(b))

\* sorted([a, b]) (stable)
Sorted2(a, b) == IF StrLess(b, a) THEN <<b, a>> ELSE <<a, b>>

\* str.encode(): UTF-8 of code points below 2048
RECURSIVE Utf8Encode(_)
Utf8Encode(s) ==
    IF s = <<>> THEN <<>>
    ELSE (IF Head(s) < 128 THEN <<Head(s)>>
          ELSE <<192 + (Head(s) \div 64), 128 + (Head(s) % 64)>>) \o Utf8Encode(Tail(s))

\* ---------------------------------------------------------------- toolkit
AtomKinds == {"deep", "leaf", "inner", "lone"}
Shapes == {"chain", "ring"}

\* Outcome of FindAtomEnvironmentOfRadiusN + PathToSubmol + MolToSmiles for one
\* atom and radius: the rooted SMILES, "ValueError" (radius larger than possible)
\* or "NotInMap" (the atom is not in the submol's atom map).
\*   deep : a neighbourhood at every radius, 'C' repeated radius+1 times
\*   leaf : "CC" at radius 1, ValueError beyond
\*   inner: "C(C)C" at radius 1, empty environment (atom not in map) beyond
\*   lone : ValueError at every radius
ToolkitEnv(mol, atom_idx, n_radius) ==
    LET kind == mol.atoms[atom_idx + 1] IN
    CASE kind = "deep" -> [tag |-> "smiles", s |-> Repeat(67, n_radius + 1)]
      [] kind = "leaf" -> IF n_radius = 1 THEN [tag |-> "smiles", s |-> <<67, 67>>]
                          ELSE [tag |-> "ValueError", s |-> <<>>]
      [] kind = "inner" -> IF n_radius = 1 THEN [tag |-> "smiles", s |-> <<67, 40, 67, 41, 67>>]
                           ELSE [tag |-> "NotInMap", s |-> <<>>]
      [] OTHER -> [tag |-> "ValueError", s |-> <<>>]

\* mol.GetNumAtoms()
GetNumAtoms(mol) == Len(mol.atoms)

\* GetDistanceMatrix(mol)[idx_1][idx_2]: topological distance along a chain or a ring
GetDistance(mol, idx_1, idx_2) ==
    LET d == IF idx_1 <= idx_2 THEN idx_2 - idx_1 ELSE idx_1 - idx_2 IN
    IF mol.shape = "ring" THEN Min(d, GetNumAtoms(mol) - d) ELSE d

\* ---------------------------------------------------------------- map.py
\* _find_neighborhood: None when the toolkit raises ValueError or the atom is not in atom_map
\* (a result tagged "raise" stands for an exception leaving the function; the
\* code catches the only one the toolkit raises here)
FindNeighborhood(mol, atom_idx, n_radius) ==
    LET env == ToolkitEnv(mol, atom_idx, n_radius) IN
    IF env.tag = "ValueError" THEN NoneVal
    ELSE IF env.tag = "smiles" THEN Str(env.s)
    ELSE NoneVal

\* _get_atom_envs: atoms_env[idx][i] is the neighbourhood of radius i + 1
GetAtomEnvs(mol, radius) ==
    [idx \in 0..(GetNumAtoms(mol) - 1) |->
        [r \in 1..radius |-> FindNeighborhood(mol, idx, r)]]

\* itertools.combinations(range(n), 2), in its order
RECURSIVE PairsFrom(_, _, _)
PairsFrom(i, j, n) ==
    IF i >= n - 1 THEN <<>>
    ELSE IF j >= n THEN PairsFrom(i + 1, i + 2, n)
    ELSE <<(<<i, j>>)>> \o PairsFrom(i, j + 1, n)

Combinations2(n) == PairsFrom(0, 1, n)

\* the (idx_1, idx_2, radius) visited by the nested loops, in order; radius = i + 1
LoopOrder(n, radius) ==
    LET P == Combinations2(n) IN
    [k \in 1..(Len(P) * radius) |->
        <<P[((k - 1) \div radius) + 1][1], P[((k - 1) \div radius) + 1][2], ((k - 1) % radius) + 1>>]

\* truth value of an Optional[str]: None and '' are falsy
Truthy(env) == env.tag = "str" /\ env.s # <<>>

\* (variant: skip only when both are falsy)
Skipped_BothAbsent(env_a_radius, env_b_radius) == ~Truthy(env_a_radius) /\ ~Truthy(env_b_radius)

\* `if not env_a_radius or not env_b_radius: continue`
Skipped(env_a_radius, env_b_radius) == ~Truthy(env_a_radius) \/ ~Truthy(env_b_radius)

\* (variant: the two neighbourhoods joined in argument order)
MakeShingle_Unsorted(env_a, dist, env_b) ==
    env_a \o <<124>> \o IntToStr(dist) \o <<124>> \o env_b

\* ordered = sorted([env_a, env_b]); f"{ordered[0]}|{dist}|{ordered[1]}"  ('|' is 124)
MakeShingle(env_a, dist, env_b) ==
    LET ordered == Sorted2(env_a, env_b) IN
    ordered[1] \o <<124>> \o IntToStr(dist) \o <<124>> \o ordered[2]

\* the loop bodies that reach the shingle, with the shingle each builds
ShingleLoop(mol, envs, radius) ==
    LET order == LoopOrder(GetNumAtoms(mol), radius)
        kept == SelectSeq(order, LAMBDA c : ~Skipped(envs[c[1]][c[3]], envs[c[2]][c[3]]))
    IN [k \in 1..Len(kept) |->
          [idx_1 |-> kept[k][1], idx_2 |-> kept[k][2], radius |-> kept[k][3],
           shingle |-> MakeShingle(envs[kept[k][1]][kept[k][3]].s,
                                   GetDistance(mol, kept[k][1], kept[k][2]),
                                   envs[kept[k][2]][kept[k][3]].s)]]

\* keys of shingle_dict in insertion order
RECURSIVE DictKeys(_, _)
DictKeys(strs, seen) ==
    IF strs = <<>> THEN <<>>
    ELSE IF Head(strs) \in seen THEN DictKeys(Tail(strs), seen)
    ELSE <<Head(strs)>> \o DictKeys(Tail(strs), seen \cup {Head(strs)})

Occurrences(strs, key) == Cardinality({k \in DOMAIN strs : strs[k] = key})

\* (variant: one entry per occurrence, no aggregation)
CountShingles_PerOccurrence(strs) ==
    [k \in 1..Len(strs) |-> strs[k] \o <<124>> \o IntToStr(1)]

\* variant == "count": one f"{shingle}|{shingle_count}" per key of shingle_dict
CountShingles(strs) ==
    LET keys == DictKeys(strs, {}) IN
    [k \in 1..Len(keys) |-> keys[k] \o <<124>> \o IntToStr(Occurrences(strs, keys[k]))]

\* _get_atom_pair_shingles, given the loop's emitted items
GetAtomPairShingles(items, variant) ==
    LET strs == [k \in 1..Len(items) |-> items[k].shingle]
        out == IF variant = "count" THEN CountShingles(strs) ELSE strs
    IN [k \in 1..Len(out) |-> Utf8Encode(out[k])]

\* one digest byte: a stand-in for SHA-1's mixing (deterministic, depends on every byte)
RECURSIVE MixByte(_, _, _)
MixByte(bytes, mult, acc) ==
    IF bytes = <<>> THEN acc
    ELSE MixByte(Tail(bytes), mult, (acc * mult + Head(bytes) + 1) % 256)

\* hashlib.sha1(shingle).digest()[:4]; the last byte keeps its top bit clear so
\* that the unpacked value stays below 2^31, the largest integer TLC evaluates
Sha1Prefix(bytes) ==
    <<MixByte(bytes, 31, 7), MixByte(bytes, 37, 11), MixByte(bytes, 41, 13),
      MixByte(bytes, 43, 17) % 128>>

\* _get_hash: struct.unpack("<I", hash_bytes[:4])[0]
GetHash(shingle) ==
    LET b == Sha1Prefix(shingle) IN
    b[1] + 256 * b[2] + 65536 * b[3] + 16777216 * b[4]

\* (variant: modulus off by one)
FoldBucket_OffByOne(hash_val, fp_size) == hash_val % (fp_size + 1)

\* hash_val % self.fp_size
FoldBucket(hash_val, fp_size) == hash_val % fp_size

\* np.bincount(bits, minlength): entry k (1-based here) counts the occurrences of k - 1
Bincount(bits, minlength) ==
    LET top == IF bits = <<>> THEN 0
               ELSE 1 + CHOOSE m \in Range(bits) : \A x \in Range(bits) : x <= m
    IN [k \in 1..Max(minlength, top) |-> Cardinality({j \in DOMAIN bits : bits[j] = k - 1})]

\* MinHash(num_perm, seed).update_batch(shingles).digest(): per permutation the
\* minimum permuted hash over the shingles, the maximal hash value when there are none
MinHashDigest(shs, num_perm, seed) ==
    [p \in 1..num_perm |->
        LET phv == {(((GetHash(shs[k]) % 8191) * (2 * p + 1 + seed) + p) % 8191) : k \in DOMAIN shs}
        IN IF phv = {} THEN 2147483647
           ELSE CHOOSE m \in phv : \A x \in phv : m <= x]

\* _calculate_single_mol_fingerprint, from the shingles on
EncodeShingles(shs, c) ==
    IF c.variant = "raw_hashes" THEN MinHashDigest(shs, c.fp_size, 0)
    ELSE Bincount([k \in 1..Len(shs) |-> FoldBucket(GetHash(shs[k]), c.fp_size)], c.fp_size)

\* _calculate_single_mol_fingerprint
CalculateSingleMolFingerprint(mol, c) ==
    LET envs == GetAtomEnvs(mol, c.radius)
        items == ShingleLoop(mol, envs, c.radius)
    IN EncodeShingles(GetAtomPairShingles(items, c.variant), c)

\* _calculate_fingerprint, per row: (X > 0).astype(uint8) for "bit", astype(uint32) for "count"
PostProcess(row, variant) ==
    IF variant = "bit" THEN [k \in 1..Len(row) |-> IF row[k] > 0 THEN 1 ELSE 0]
    ELSE row

\* ---------------------------------------------------------------- base.py
NoMol == [atoms |-> <<>>, shape |-> "chain"]
MolElem(m) == [type |-> "Mol", mol |-> m, s |-> <<>>]
StrElem(s) == [type |-> "str", mol |-> NoMol, s |-> s]
IntElem == [type |-> "int", mol |-> NoMol, s |-> <<>>]
NoneElem == [type |-> "NoneType", mol |-> NoMol, s |-> <<>>]

\* rdkit MolFromSmiles on the notations used here: a run of n 'C' is the n-atom
\* alkane chain; anything else does not parse and gives None (no exception)
MolFromSmiles(s) ==
    IF s # <<>> /\ \A k \in DOMAIN s : s[k] = 67
    THEN MolElem([atoms |-> IF Len(s) = 1 THEN <<"lone">>
                            ELSE <<"leaf">> \o Repeat("inner", Len(s) - 2) \o <<"leaf">>,
                  shape |-> "chain"])
    ELSE NoneElem

\* _validate_input: the loop over enumerate(X); X[i] is assigned in place
RECURSIVE ValidateFrom(_, _)
ValidateFrom(Xc, i) ==
    IF i > Len(Xc) THEN [X |-> Xc, err |-> ""]
    ELSE IF Xc[i].type # "Mol" /\ Xc[i].type # "str"
         THEN [X |-> Xc, err |-> "ValueError: neither Mol nor SMILES"]
    ELSE IF Xc[i].type = "str"
         THEN ValidateFrom([Xc EXCEPT ![i] = MolFromSmiles(Xc[i].s)], i + 1)
    ELSE ValidateFrom(Xc, i + 1)

ValidateInput(Xc) == ValidateFrom(Xc, 1)

\* ensure_mols: every element a Mol or a parseable notation, else an input-validation error
EnsureMols(Xsub) ==
    LET parsed == [k \in 1..Len(Xsub) |->
                      IF Xsub[k].type = "str" THEN MolFromSmiles(Xsub[k].s) ELSE Xsub[k]]
    IN IF \E k \in 1..Len(parsed) : parsed[k].type # "Mol"
       THEN [X |-> parsed, err |-> "ValueError: not a molecule"]
       ELSE [X |-> parsed, err |-> ""]

Pending == [tag |-> "pending", m |-> <<>>, err |-> ""]
Matrix(m) == [tag |-> "matrix", m |-> m, err |-> ""]
Raised(e) == [tag |-> "error", m |-> <<>>, err |-> e]

\* MAPFingerprint._calculate_fingerprint on one (sub-)batch: np.stack of the
\* per-molecule vectors, then the variant's cast
CalculateFingerprint(Xsub, c) ==
    LET e == EnsureMols(Xsub) IN
    IF e.err # "" THEN Raised(e.err)
    ELSE IF Len(Xsub) = 0 THEN Raised("ValueError: need at least one array to stack")
    ELSE Matrix([k \in 1..Len(Xsub) |->
                    PostProcess(CalculateSingleMolFingerprint(e.X[k].mol, c), c.variant)])

\* (variant: size rounded up, so that there are at most n_jobs parts)
DefaultBatchSize_Ceil(N, n) == Max((N + n - 1) \div n, 1)

\* max(len(X) // self.n_jobs, 1)
DefaultBatchSize(N, n) == Max(N \div n, 1)

\* the explicit batch_size when set, else the default
EffectiveBatchSize(bs, N, n) == IF bs.set THEN bs.v ELSE DefaultBatchSize(N, n)

\* len(range(0, N, step))
RangeLen(N, step) == (N + step - 1) \div step

\* (X[i : i + batch_size] for i in range(0, len(X), batch_size))
SubBatches(Xc, size) ==
    [b \in 1..RangeLen(Len(Xc), size) |->
        SubSeq(Xc, (b - 1) * size + 1, Min(b * size, Len(Xc)))]

\* (variant: results kept in the order the workers deliver them)
PlaceResult_Arrival(res, b, r) ==
    LET slot == CHOOSE s \in DOMAIN res :
                    /\ res[s].tag = "pending"
                    /\ \A s2 \in 1..(s - 1) : res[s2].tag # "pending"
    IN [res EXCEPT ![slot] = r]

\* Parallel() stores a finished task's result at the task's submission index
PlaceResult(res, b, r) == [res EXCEPT ![b] = r]

\* (variant: failed tasks dropped, the rest concatenated)
GatherResults_SkipFailed(res) ==
    LET ok == SelectSeq(res, LAMBDA x : x.tag = "matrix") IN
    IF ok = <<>> THEN Raised("ValueError: need at least one array to concatenate")
    ELSE Matrix(Flatten([b \in 1..Len(ok) |-> ok[b].m]))

\* Parallel()(...) hands back the per-task results as a list in submission order,
\* or re-raises a task's exception; np.concatenate(results) stacks the rows
GatherResults(res) ==
    IF \E b \in DOMAIN res : res[b].tag = "error"
    THEN Raised(res[CHOOSE b \in DOMAIN res :
                       /\ res[b].tag = "error"
                       /\ \A b2 \in DOMAIN res : res[b2].tag = "error" => b <= b2].err)
    ELSE IF res = <<>> THEN Raised("ValueError: need at least one array to concatenate")
    ELSE Matrix(Flatten([b \in 1..Len(res) |-> res[b].m]))

\* ---------------------------------------------------------------- inputs
Variants == {"raw_hashes", "bit", "count"}

Elements ==
    { MolElem([atoms |-> <<"deep", "leaf">>, shape |-> "chain"]),
      StrElem(<<67, 67, 67>>),      \* "CCC"
      StrElem(<<120, 120>>),        \* "xx", not a SMILES
      IntElem }                     \* 5, neither Mol nor str

RECURSIVE SeqsUpTo(_, _)
SeqsUpTo(S, n) ==
    IF n = 0 THEN {<<>>}
    ELSE LET shorter == SeqsUpTo(S, n - 1) IN
         shorter \cup {Append(q, e) : q \in {q2 \in shorter : Len(q2) = n - 1}, e \in S}

Unset == [set |-> FALSE, v |-> 0]
BatchSizes == {Unset, [set |-> TRUE, v |-> 2]}

TransformConfigs == {[fp_size |-> 8, radius |-> 2, variant |-> "count"]}

Molecules ==
    {[atoms |-> a, shape |-> sh] : a \in (SeqsUpTo(AtomKinds, MaxAtoms) \ {<<>>}), sh \in Shapes}

PipelineConfigs ==
    {[fp_size |-> f, radius |-> r, variant |-> v] : f \in {1, 2, 5}, r \in 0..MaxRadius, v \in Variants}

NoReturn == [tag |-> "none", m |-> <<>>, err |-> ""]

\* ---------------------------------------------------------------- transform
TIdle ==
    /\ X = <<>> /\ X0 = <<>> /\ n_jobs = 1 /\ batch_size = Unset
    /\ cfg = [fp_size |-> 1, radius |-> 0, variant |-> "bit"]
    /\ pc = "idle" /\ args = <<>> /\ results = <<>> /\ reordered = FALSE
    /\ computed = 0 /\ ret = NoReturn /\ err = ""

FIdle ==
    /\ fmol = NoMol /\ fcfg = [fp_size |-> 1, radius |-> 0, variant |-> "bit"]
    /\ fpc = "idle" /\ atoms_envs = <<>> /\ emitted = <<>> /\ shingles = <<>>
    /\ fp = <<>> /\ ferr = ""

TInit ==
    /\ X \in SeqsUpTo(Elements, MaxLen)
    /\ X0 = X
    /\ n_jobs \in 1..MaxJobs
    /\ batch_size \in BatchSizes
    /\ cfg \in TransformConfigs
    /\ pc = "start"
    /\ args = <<>> /\ results = <<>> /\ reordered = FALSE
    /\ computed = 0 /\ ret = NoReturn /\ err = ""

\* X = self._validate_input(X)
Validate ==
    /\ pc = "start"
    /\ LET v == ValidateInput(X) IN
       /\ X' = v.X
       /\ IF v.err # "" THEN pc' = "failed" /\ err' = v.err
          ELSE pc' = "validated" /\ err' = err
    /\ UNCHANGED <<X0, n_jobs, batch_size, cfg, args, results, reordered, computed, ret>>

\* if self.n_jobs == 1: return self._calculate_fingerprint(X)
Sequential ==
    /\ pc = "validated" /\ n_jobs = 1
    /\ LET r == CalculateFingerprint(X, cfg) IN
       IF r.tag = "matrix"
       THEN pc' = "done" /\ ret' = r /\ err' = err /\ computed' = computed + Len(X)
       ELSE pc' = "failed" /\ ret' = ret /\ err' = r.err /\ computed' = computed
    /\ UNCHANGED <<X, X0, n_jobs, batch_size, cfg, args, results, reordered>>

\* else: the sub-batches are cut and submitted to the worker pool
Dispatch ==
    /\ pc = "validated" /\ n_jobs # 1
    /\ args' = SubBatches(X, EffectiveBatchSize(batch_size, Len(X), n_jobs))
    /\ results' = [b \in 1..Len(args') |-> Pending]
    /\ pc' = "running"
    /\ UNCHANGED <<X, X0, n_jobs, batch_size, cfg, reordered, computed, ret, err>>

\* one worker finishes delayed(self._calculate_fingerprint)(X_sub); the pool has
\* n_jobs workers taking the tasks in submission order, so a task can be the next
\* to finish when fewer than n_jobs unfinished tasks precede it
WorkerRun(b) ==
    /\ pc = "running" /\ results[b].tag = "pending"
    /\ Cardinality({b2 \in 1..(b - 1) : results[b2].tag = "pending"}) < n_jobs
    /\ LET r == CalculateFingerprint(args[b], cfg) IN
       /\ results' = PlaceResult(results, b, r)
       /\ computed' = IF r.tag = "matrix" THEN computed + Len(args[b]) ELSE computed
    /\ reordered' = (reordered \/ \E b2 \in 1..(b - 1) : results[b2].tag = "pending")
    /\ UNCHANGED <<X, X0, n_jobs, batch_size, cfg, pc, args, ret, err>>

\* Parallel() returns once every task is done, or raises as soon as one has failed;
\* return np.concatenate(results)
Gather ==
    /\ pc = "running"
    /\ \/ \A b \in DOMAIN results : results[b].tag # "pending"
       \/ \E b \in DOMAIN results : results[b].tag = "error"
    /\ LET r == GatherResults(results) IN
       IF r.tag = "matrix"
       THEN pc' = "done" /\ ret' = r /\ err' = err
       ELSE pc' = "failed" /\ ret' = ret /\ err' = r.err
    /\ UNCHANGED <<X, X0, n_jobs, batch_size, cfg, args, results, reordered, computed>>

TNext ==
    \/ Validate
    \/ Sequential
    \/ Dispatch
    \/ \E b \in 1..Len(results) : WorkerRun(b)
    \/ Gather

Init == TInit /\ FIdle
Next == TNext /\ UNCHANGED fvars
Spec == Init /\ [][Next]_vars

\* ---------------------------------------------------------------- pipeline
FInit ==
    /\ fmol \in Molecules
    /\ fcfg \in PipelineConfigs
    /\ fpc = "envs"
    /\ atoms_envs = <<>> /\ emitted = <<>> /\ shingles = <<>> /\ fp = <<>> /\ ferr = ""

\* atoms_envs = self._get_atom_envs(mol)
StepGetAtomEnvs ==
    /\ fpc = "envs"
    /\ LET envs == GetAtomEnvs(fmol, fcfg.radius) IN
       IF \E idx \in DOMAIN envs : \E r \in DOMAIN envs[idx] : envs[idx][r].tag = "raise"
       THEN fpc' = "failed" /\ ferr' = "ValueError" /\ atoms_envs' = atoms_envs
       ELSE fpc' = "shingles" /\ ferr' = ferr /\ atoms_envs' = envs
    /\ UNCHANGED <<fmol, fcfg, emitted, shingles, fp>>

\* shingles = self._get_atom_pair_shingles(mol, atoms_envs)
StepGetAtomPairShingles ==
    /\ fpc = "shingles"
    /\ emitted' = ShingleLoop(fmol, atoms_envs, fcfg.radius)
    /\ shingles' = GetAtomPairShingles(emitted', fcfg.variant)
    /\ fpc' = "encode"
    /\ UNCHANGED <<fmol, fcfg, atoms_envs, fp, ferr>>

\* the MinHash digest, or the folded histogram; then the variant's cast
StepEncode ==
    /\ fpc = "encode"
    /\ fp' = PostProcess(EncodeShingles(shingles, fcfg), fcfg.variant)
    /\ fpc' = "done"
    /\ UNCHANGED <<fmol, fcfg, atoms_envs, emitted, shingles, ferr>>

FNext ==
    \/ StepGetAtomEnvs
    \/ StepGetAtomPairShingles
    \/ StepEncode

InitFP == FInit /\ TIdle
NextFP == FNext /\ UNCHANGED tvars
SpecFP == InitFP /\ [][NextFP]_vars

\* ================================================================ properties
\* the fingerprint row of one validated element, as n_jobs = 1 computes it
RowOf(elem) == PostProcess(CalculateSingleMolFingerprint(elem.mol, cfg), cfg.variant)

\* the element is neither a Mol nor a notation the parser accepts
IsInvalid(elem) ==
    \/ elem.type \notin {"Mol", "str"}
    \/ elem.type = "str" /\ MolFromSmiles(elem.s).type # "Mol"

\* C1: with n_jobs > 1, whatever the order in which the workers finish, a returned
\* matrix is the one n_jobs = 1 returns on the same input: row k is the
\* fingerprint of input element k.
C1_ParallelEqualsSequential ==
    (n_jobs > 1 /\ pc = "done") =>
        /\ ret.tag = "matrix"
        /\ Len(ret.m) = Len(X0)
        /\ \A k \in 1..Len(X0) : ret.m[k] = RowOf(X[k])
        /\ ret = CalculateFingerprint(X, cfg)

C1_Witness ==
    /\ n_jobs > 1 /\ pc = "done" /\ reordered
    /\ Len(args) >= 3
    /\ ret.m[1] # ret.m[Len(ret.m)]

\* C2 (as claimed): if some input element is neither a Mol nor a parseable
\* notation, transform fails with the input-validation error before any
\* fingerprint is computed and returns nothing.
C2_InvalidInputFailsBeforeCompute ==
    (\E k \in 1..Len(X0) : IsInvalid(X0[k])) =>
        /\ computed = 0
        /\ ret = NoReturn
        /\ pc # "done"

ExistingCombos ==
    {c \in (0..(GetNumAtoms(fmol) - 1)) \X (0..(GetNumAtoms(fmol) - 1)) \X (1..fcfg.radius) :
        /\ c[1] < c[2]
        /\ ToolkitEnv(fmol, c[1], c[3]).tag = "smiles"
        /\ ToolkitEnv(fmol, c[2], c[3]).tag = "smiles"}

\* the shingle string of one such combination
ShingleOfCombo(c) ==
    MakeShingle(ToolkitEnv(fmol, c[1], c[3]).s, GetDistance(fmol, c[1], c[2]),
                ToolkitEnv(fmol, c[2], c[3]).s)

\* C4 (as claimed): in the count variant the entries of the vector sum to the
\* number of (atom pair, radius) combinations whose two neighbourhoods exist.
C4_CountSumIsCombinations ==
    (fpc = "done" /\ fcfg.variant = "count") => SumSeq(fp) = Cardinality(ExistingCombos)

\* C4 (amended): in the count variant the entries of the vector sum to the
\* number of distinct shingle strings among those combinations.
C4_CountSumIsDistinctShingles ==
    (fpc = "done" /\ fcfg.variant = "count") =>
        SumSeq(fp) = Cardinality({ShingleOfCombo(c) : c \in ExistingCombos})

C4_Witness ==
    /\ fpc = "done" /\ fcfg.variant = "count"
    /\ Cardinality({ShingleOfCombo(c) : c \in ExistingCombos}) >= 2
    /\ Cardinality({ShingleOfCombo(c) : c \in ExistingCombos}) < Cardinality(ExistingCombos)

\* C5: for every molecule and variant the vector has exactly fp_size entries, and
\* in the bit and count variants every bucket index lies in 0..fp_size-1.
C5_VectorLengthIsFpSize ==
    /\ fpc = "done" => Len(fp) = fcfg.fp_size
    /\ (fpc \in {"encode", "done"} /\ fcfg.variant # "raw_hashes") =>
           \A k \in 1..Len(shingles) :
               FoldBucket(GetHash(shingles[k]), fcfg.fp_size) \in 0..(fcfg.fp_size - 1)

C5_Witness ==
    /\ fpc = "done" /\ fcfg.variant = "count" /\ fcfg.fp_size = 5
    /\ Len(shingles) >= 2
    /\ \E k \in 1..Len(shingles) : GetHash(shingles[k]) >= 65536

\* C6: a shingle is emitted for (i, j, r) exactly when the neighbourhoods of both
\* atoms at radius r exist, once each, and the pipeline raises nothing.
C6_ShingleIffBothExist ==
    /\ ferr = "" /\ fpc # "failed"
    /\ fpc \in {"encode", "done"} =>
          /\ {<<emitted[k].idx_1, emitted[k].idx_2, emitted[k].radius>> : k \in 1..Len(emitted)}
                = ExistingCombos
          /\ Len(emitted) = Cardinality(ExistingCombos)

\* the two-atom molecule at max_radius 2: radius 1 emits, radius 2 is absent
C6_Witness ==
    /\ fpc = "done" /\ GetNumAtoms(fmol) = 2 /\ fcfg.radius = 2
    /\ ToolkitEnv(fmol, 0, 2).tag = "ValueError"
    /\ ~Truthy(atoms_envs[0][2]) /\ ~Truthy(atoms_envs[1][2])
    /\ Len(emitted) = 1 /\ emitted[1].radius = 1
    /\ ferr = ""

\* C7: with n_jobs > 1, when the pipeline raises for some sub-batch, transform
\* never returns: no matrix is built from the sub-batches that succeeded.
C7_WorkerFailureFailsTransform ==
    (n_jobs > 1 /\ pc \in {"running", "done", "failed"}
       /\ \E b \in 1..Len(args) : CalculateFingerprint(args[b], cfg).tag = "error") =>
        /\ pc # "done"
        /\ ret = NoReturn
        /\ pc = "failed" => err # ""

C7_Witness ==
    /\ n_jobs > 1 /\ pc = "failed"
    /\ \E b \in 1..Len(results) : results[b].tag = "error"
    /\ \E b \in 1..Len(results) : results[b].tag = "matrix"
    /\ ret = NoReturn

\* C8 (as claimed): the caller's sequence holds the same elements after the call
\* as before it.
C8_InputUnchanged == X = X0

\* C9: the shingle of (i, j) at a radius equals the one built with the two atoms
\* swapped.
C9_PairOrderIndependent ==
    (fpc \in {"encode", "done"}) =>
        \A k \in 1..Len(emitted) :
            LET e == emitted[k] IN
            /\ e.shingle = MakeShingle(atoms_envs[e.idx_2][e.radius].s,
                                       GetDistance(fmol, e.idx_2, e.idx_1),
                                       atoms_envs[e.idx_1][e.radius].s)
            /\ MakeShingle(atoms_envs[e.idx_1][e.radius].s, GetDistance(fmol, e.idx_1, e.idx_2),
                           atoms_envs[e.idx_2][e.radius].s)
                 = MakeShingle(atoms_envs[e.idx_2][e.radius].s, GetDistance(fmol, e.idx_2, e.idx_1),
                               atoms_envs[e.idx_1][e.radius].s)

\* a pair whose first atom has the lexicographically larger neighbourhood
C9_Witness ==
    /\ fpc = "done"
    /\ \E k \in 1..Len(emitted) :
          StrLess(atoms_envs[emitted[k].idx_2][emitted[k].radius].s,
                  atoms_envs[emitted[k].idx_1][emitted[k].radius].s)

\* C10 (as claimed): with batch_size unset there are exactly n_jobs sub-batches,
\* all of the same size.
C10_EqualPartsAsManyAsJobs ==
    (pc = "running" /\ ~batch_size.set) =>
        /\ Len(args) = n_jobs
        /\ \A b1, b2 \in 1..Len(args) : Len(args[b1]) = Len(args[b2])

====
